---- MODULE Spec2Model ----
(***************************************************************************)
(* SerialPlot (src/Mian.py): the serial acquisition worker, the six        *)
(* bounded channel queues, the demo producer, the ~60 Hz consumer tick     *)
(* (update_loop) with its rolling windows, and the recording buffer.       *)
(*                                                                         *)
(* Threads.  The Qt event loop (main thread) runs on_connect,              *)
(* on_disconnect, on_rec_start, on_rec_stop, on_demo_toggle, _demo_tick    *)
(* and update_loop one at a time.  Every on_connect starts a new daemon    *)
(* thread running _serial_worker; worker threads interleave with the main  *)
(* thread at every queue operation, so update_loop is modelled one queue   *)
(* operation at a time (idx = 0: no tick in progress), and _demo_tick one  *)
(* put at a time (demo_idx = 0: no demo tick in progress).  The message    *)
(* box on_rec_stop opens is modal and runs the event loop: while it is     *)
(* open (modal) the timers fire and no button handler starts.  While a     *)
(* single                                                                  *)
(* worker exists its read, decode and put are one step (worker_frame);     *)
(* where connections follow one another, and an earlier worker can still   *)
(* be alive, the read and the put are separate steps (worker_read,         *)
(* worker_put).                                                            *)
(*                                                                         *)
(* Indices are 1-based here (channel i of the model is ch_*[i-1]).         *)
(* Values are the floats the code enqueues; the worker only ever produces  *)
(* float(b) for a byte b, or 0.0, which the integers represent exactly.    *)
(* Widget texts, colours and the buffer progress bar are not modelled; the *)
(* enabled state of the buttons is, since it decides which handlers the    *)
(* user can start.                                                         *)
(***************************************************************************)
EXTENDS Integers, Sequences, FiniteSets, TLC

\* ------------------------------------------------------------------ sizes
\* Program constants scaled down for model checking.
WINDOW_W == 2          \* WINDOW_W = 500 (line 192)
MAXSIZE == 2           \* Queue(maxsize=5000) (line 196)
\* Bounds of the exploration.
MaxThreads == 2        \* on_connect calls (each starts one worker thread)
MaxReads == 2          \* frames returned by read_until (all but SpecAcq)
MaxAcqReads == 3       \* frames returned by read_until under SpecAcq
MaxTicks == 2          \* update_loop runs
MaxDemoTicks == 2      \* _demo_tick runs
MaxFlushFails == 1     \* on_connect calls in which flushInput() raises

NUM_CH == 6
NODE_IDS == <<"31", "32", "33", "34", "35", "36">>
DEMO_CH == 3

Channels == 1..NUM_CH
Threads == 1..MaxThreads

\* ---------------------------------------------------------------- inputs
TERMINATOR == <<255, 255, 255>>
\* First bytes the transport delivers: 0x31, 0x32 (known node IDs) and 0x3a
\* (unknown).
TagBytes == {49, 50, 58}
\* Second bytes (payload) the transport delivers.
ValBytes == {1}
\* What ser.read_until(expected=b"\xff\xff\xff", size=244) can return: nothing,
\* a lone byte (read cut short), a tag directly followed by the terminator, or
\* a tag and a value byte followed by the terminator.  The terminator is part
\* of the returned bytes.  The worker's local raw is the input r of
\* worker_frame.
RawFrames ==
    {<<>>}
    \cup { <<t>> : t \in TagBytes }
    \cup { <<t>> \o TERMINATOR : t \in TagBytes }
    \cup { <<t, v>> \o TERMINATOR : t \in TagBytes, v \in ValBytes }
\* The few frames read where the user's handlers are enabled as well.
Frames == {<<>>, <<49, 1>> \o TERMINATOR, <<50, 2>> \o TERMINATOR}
\* The frames read where connections follow one another: nothing, and two
\* frames of one channel with different values.
ReconnFrames == {<<>>, <<49>>, <<49, 1>> \o TERMINATOR}
\* Stand-in for the random floats DEMO_FN produces.
DemoVals == {3}

\* ---------------------------------------------------------------- values
None == <<>>
Some(v) == <<v>>
\* The blank cell "" of a recorded row.
Blank == <<>>

VARIABLES
    ch_queues,       \* [Channels -> Seq(value)], head = oldest
    ch_vals,         \* [Channels -> window of WINDOW_W values]
    ch_ptrs,         \* [Channels -> Int]
    _rec_rows,       \* sequence of rows <<timestamp, cell1..cell6>>
    ser,             \* 0 = None, k = the k-th Serial object created
    ports,           \* ports[k]: is the k-th Serial object created still open?
    running,
    recording,
    _acq_thread,     \* 0 = None, k = the thread started by connect k
    _demo_active,
    btn_connect,     \* "Connect" | "Disconnect": the handler the button runs
    btn_rec_start,   \* enabled?
    btn_rec_stop,    \* enabled?
    data,            \* the rows on_rec_stop last snapshotted for saving
    modal,           \* a message box of on_rec_stop is open: the handler is
                     \*   inside QMessageBox.information, the buttons are blocked
                     \*   and the timers keep firing
    demo_idx,        \* _demo_tick: 0 = not running, else the channel it puts next
    wpc,             \* [Threads -> "none" | "while" | "read" | "put" | "done" |
                     \*   "faulted"]
    raw,             \* [Threads -> the worker's local raw: the frame last read]
    idx,             \* update_loop: 0 = not running, else the channel being drained
    last,            \* update_loop: None or Some(v)
    current_vals,    \* update_loop: [Channels -> None or Some(v)]
    clock,           \* number of update_loop runs started (stands for time.time())
    pushed,          \* history: [Channels -> values pushed onto the window, in order]
    offered,         \* history: [Channels -> the put_nowait calls, in order, each
                     \*   [v |-> the value, ok |-> whether the queue took it]]
    got,             \* history: values the current tick removed from queue idx
    snap,            \* history: <<ch_vals, ch_ptrs, _rec_rows, offered>> when the
                     \*   tick in progress began (<<>> between ticks)
    nreads,          \* history: frames returned by read_until
    ndemo,           \* history: _demo_tick runs
    arrived,         \* history: [Channels -> the values decoded from the channel's
                     \*   frames, in the order read_until returned the frames]
    appended,        \* history: every row update_loop has appended, in order
    rec_mark         \* history: Len(appended) at the most recent on_rec_start

vars == <<ch_queues, ch_vals, ch_ptrs, _rec_rows, ser, running, recording,
          _acq_thread, _demo_active, btn_connect, btn_rec_start, btn_rec_stop,
          data, wpc, raw, idx, last, current_vals, clock, pushed, offered, got,
          snap, nreads, ndemo, arrived, appended, rec_mark, ports, modal,
          demo_idx>>

mainVars == <<ser, running, recording, _acq_thread, _demo_active, btn_connect,
              btn_rec_start, btn_rec_stop, data, rec_mark, ports, modal>>
tickVars == <<ch_vals, ch_ptrs, _rec_rows, idx, last, current_vals, clock,
              pushed, got, snap, appended>>
workerVars == <<wpc, raw, nreads, arrived>>

\* ------------------------------------------------------------ pure helpers
HexDigits == <<"0", "1", "2", "3", "4", "5", "6", "7",
               "8", "9", "a", "b", "c", "d", "e", "f">>

\* bytes([b]).hex(): two lowercase hex digits, high nibble first.
hex(b) == HexDigits[(b \div 16) + 1] \o HexDigits[(b % 16) + 1]

\* raw[0:1].hex(): "" for an empty raw.
node_id_of(r) == IF Len(r) = 0 THEN "" ELSE hex(r[1])

\* node_id in NODE_IDS
is_node_id(s) == \E i \in 1..Len(NODE_IDS) : NODE_IDS[i] = s

\* Variant: NODE_IDS.index(node_id) + 1 taken as the channel.
index_of_shifted(s) ==
    CHOOSE i \in 1..Len(NODE_IDS) : NODE_IDS[((i + NUM_CH - 2) % NUM_CH) + 1] = s

\* NODE_IDS.index(node_id), 1-based: the first position holding it.
index_of(s) ==
    CHOOSE i \in 1..Len(NODE_IDS) :
        /\ NODE_IDS[i] = s
        /\ \A j \in 1..(i - 1) : NODE_IDS[j] # s

\* Variant: the value read at offset 0 (the tag byte).
_parse_value_offset0(r) == IF Len(r) > 1 THEN r[1] ELSE 0

\* _parse_value(raw): float(raw[1]) if len(raw) > 1 else 0.0
_parse_value(r) == IF Len(r) > 1 THEN r[2] ELSE 0

\* Queue.full()
full(q) == Len(q) >= MAXSIZE

\* Variant: a full queue gives up its oldest item for the new one.
put_nowait_evict(q, v) == IF full(q) THEN Append(Tail(q), v) ELSE Append(q, v)

\* Queue.put_nowait under "except Full: pass": the queue afterwards.
put_nowait(q, v) == IF full(q) THEN q ELSE Append(q, v)

\* The history of put_nowait calls on a queue q after the call with v.
offer(h, q, v) == Append(h, [v |-> v, ok |-> ~full(q)])

\* np.zeros(WINDOW_W)
zeros == [i \in 1..WINDOW_W |-> 0]

\* Variant: the new value appended without dropping the oldest.
push_grow(w, v) == Append(w, v)

\* Variant: the new value written at the last index without the shift.
push_no_shift(w, v) == [i \in 1..WINDOW_W |-> IF i < WINDOW_W THEN w[i] ELSE v]

\* ch_vals[idx][:-1] = ch_vals[idx][1:]; ch_vals[idx][-1] = last
push(w, v) == [i \in 1..WINDOW_W |-> IF i < WINDOW_W THEN w[i + 1] ELSE v]

\* Variant: 0.0 written where a channel had no value.
row_of_zero_fill(t, cv) ==
    <<t>> \o [i \in 1..NUM_CH |-> IF cv[i] # None THEN cv[i] ELSE Some(0)]

\* [time.time()] + [(v if v is not None else "") for v in current_vals]
row_of(t, cv) ==
    <<t>> \o [i \in 1..NUM_CH |-> IF cv[i] # None THEN cv[i] ELSE Blank]

\* Variant: a row for every tick.
any_value_always(cv) == TRUE

\* any(v is not None for v in current_vals)
any_value(cv) == \E i \in Channels : cv[i] # None

\* -------------------------------------------------------------------- Init
Init ==
    /\ ch_queues = [i \in Channels |-> <<>>]
    /\ ch_vals = [i \in Channels |-> zeros]
    /\ ch_ptrs = [i \in Channels |-> -WINDOW_W]
    /\ _rec_rows = <<>>
    /\ ser = 0
    /\ running = FALSE
    /\ recording = FALSE
    /\ _acq_thread = 0
    /\ _demo_active = FALSE
    /\ btn_connect = "Connect"
    /\ btn_rec_start = FALSE
    /\ btn_rec_stop = FALSE
    /\ data = <<>>
    /\ wpc = [t \in Threads |-> "none"]
    /\ raw = [t \in Threads |-> <<>>]
    /\ offered = [i \in Channels |-> <<>>]
    /\ idx = 0
    /\ last = None
    /\ current_vals = [i \in Channels |-> None]
    /\ clock = 0
    /\ pushed = [i \in Channels |-> <<>>]
    /\ got = <<>>
    /\ snap = <<>>
    /\ nreads = 0
    /\ ndemo = 0
    /\ arrived = [i \in Channels |-> <<>>]
    /\ appended = <<>>
    /\ rec_mark = 0
    /\ ports = <<>>
    /\ modal = FALSE
    /\ demo_idx = 0

\* ------------------------------------------------------- acquisition worker
\* "while running:" followed by the call ser.read_until(...): the loop ends
\* when running is false; with ser = None the call raises (caught by
\* "except Exception: break"); otherwise the thread blocks in the read.
worker_loop(t) ==
    /\ wpc[t] = "while"
    /\ wpc' = [wpc EXCEPT ![t] =
                  IF ~running THEN "done"
                  ELSE IF ser = 0 THEN "faulted"
                  ELSE "read"]
    /\ UNCHANGED <<ch_queues, offered, raw, nreads, arrived, mainVars, tickVars,
                   ndemo, demo_idx>>

\* Variant: the membership test dropped, unknown tags going to the first channel.
route_unchecked(qs, r) ==
    IF Len(r) = 0 THEN qs
    ELSE [qs EXCEPT ![IF is_node_id(node_id_of(r)) THEN index_of(node_id_of(r)) ELSE 1] =
             put_nowait(@, _parse_value(r))]

\* The queues after one frame has gone through lines 400-409.
route(qs, r) ==
    IF Len(r) = 0 THEN qs
    ELSE IF is_node_id(node_id_of(r))
         THEN [qs EXCEPT ![index_of(node_id_of(r))] = put_nowait(@, _parse_value(r))]
         ELSE qs

\* The put_nowait history after the same frame.
route_offered(h, qs, r) ==
    IF Len(r) = 0 THEN h
    ELSE IF is_node_id(node_id_of(r))
         THEN [h EXCEPT ![index_of(node_id_of(r))] =
                  offer(@, qs[index_of(node_id_of(r))], _parse_value(r))]
         ELSE h

\* The arrival history after read_until has returned r.
note_arrival(a, r) ==
    IF Len(r) = 0 THEN a
    ELSE IF is_node_id(node_id_of(r))
         THEN [a EXCEPT ![index_of(node_id_of(r))] = Append(@, _parse_value(r))]
         ELSE a

\* Variant: an empty read ends the loop ("break" in place of "continue").
worker_frame_empty_break(t, r) ==
    /\ wpc[t] = "read"
    /\ raw' = [raw EXCEPT ![t] = r]
    /\ ch_queues' = route(ch_queues, r)
    /\ offered' = route_offered(offered, ch_queues, r)
    /\ arrived' = note_arrival(arrived, r)
    /\ wpc' = [wpc EXCEPT ![t] = IF Len(r) = 0 THEN "faulted" ELSE "while"]
    /\ nreads' = nreads + 1
    /\ UNCHANGED <<mainVars, tickVars, ndemo, demo_idx>>

\* read_until returns r; the frame is decoded, routed and enqueued, and the
\* thread is back at the loop condition.  Nothing between the return of the
\* read and the put touches shared state, so with a single worker the lines
\* 399-409 are one step.
worker_frame(t, r) ==
    /\ wpc[t] = "read"
    /\ raw' = [raw EXCEPT ![t] = r]
    /\ ch_queues' = route(ch_queues, r)
    /\ offered' = route_offered(offered, ch_queues, r)
    /\ arrived' = note_arrival(arrived, r)
    /\ wpc' = [wpc EXCEPT ![t] = "while"]
    /\ nreads' = nreads + 1
    /\ UNCHANGED <<mainVars, tickVars, ndemo, demo_idx>>

\* Lines 399-409 in two steps, for runs in which more than one worker thread
\* is alive: read_until returns r to thread t ...
worker_read(t, r) ==
    /\ wpc[t] = "read"
    /\ raw' = [raw EXCEPT ![t] = r]
    /\ arrived' = note_arrival(arrived, r)
    /\ wpc' = [wpc EXCEPT ![t] = "put"]
    /\ nreads' = nreads + 1
    /\ UNCHANGED <<ch_queues, offered, mainVars, tickVars, ndemo, demo_idx>>

\* ... and thread t decodes, routes and enqueues its raw.
worker_put(t) ==
    /\ wpc[t] = "put"
    /\ ch_queues' = route(ch_queues, raw[t])
    /\ offered' = route_offered(offered, ch_queues, raw[t])
    /\ wpc' = [wpc EXCEPT ![t] = "while"]
    /\ UNCHANGED <<raw, nreads, arrived, mainVars, tickVars, ndemo, demo_idx>>

\* Variant: "continue" in place of "break".
worker_fault_continue(t) ==
    /\ wpc[t] = "read"
    /\ wpc' = [wpc EXCEPT ![t] = "while"]
    /\ UNCHANGED <<ch_queues, offered, raw, nreads, arrived, mainVars, tickVars,
                   ndemo, demo_idx>>

\* read_until raises (I/O error, port closed under the read): break.
worker_fault(t) ==
    /\ wpc[t] = "read"
    /\ wpc' = [wpc EXCEPT ![t] = "faulted"]
    /\ UNCHANGED <<ch_queues, offered, raw, nreads, arrived, mainVars, tickVars,
                   ndemo, demo_idx>>

\* ------------------------------------------------------ connect / disconnect
\* The main thread is in the event loop, inside no timer callback.
main_idle == idx = 0 /\ demo_idx = 0

\* A button handler can start: the main thread is idle and no modal message
\* box is open.
buttons_live == main_idle /\ ~modal

\* on_connect with a port selected and serial.Serial(...) and flushInput()
\* succeeding.
on_connect ==
    /\ buttons_live
    /\ btn_connect = "Connect"
    /\ ser' = Len(ports) + 1
    /\ ports' = Append(ports, TRUE)
    /\ running' = TRUE
    /\ _acq_thread' = _acq_thread + 1
    /\ wpc' = [wpc EXCEPT ![_acq_thread + 1] = "while"]
    /\ btn_connect' = "Disconnect"
    /\ btn_rec_start' = TRUE
    /\ UNCHANGED <<ch_queues, offered, raw, nreads, arrived, recording,
                   _demo_active, btn_rec_stop, data, rec_mark, modal, tickVars,
                   ndemo, demo_idx>>

\* on_connect with no port selected, or serial.Serial(...) raising
\* SerialException: a message box, then return.
on_connect_fail ==
    /\ buttons_live
    /\ btn_connect = "Connect"
    /\ UNCHANGED vars

\* on_connect with serial.Serial(...) succeeding and ser.flushInput() raising
\* SerialException: the global ser is already the new, open Serial object; a
\* message box, then return.
on_connect_flush_fail ==
    /\ buttons_live
    /\ btn_connect = "Connect"
    /\ ser' = Len(ports) + 1
    /\ ports' = Append(ports, TRUE)
    /\ UNCHANGED <<ch_queues, offered, workerVars, running, recording,
                   _acq_thread, _demo_active, btn_connect, btn_rec_start,
                   btn_rec_stop, data, rec_mark, modal, tickVars, ndemo,
                   demo_idx>>

on_disconnect ==
    /\ buttons_live
    /\ btn_connect = "Disconnect"
    /\ running' = FALSE
    /\ recording' = FALSE
    /\ ports' = IF ser # 0 /\ ports[ser] THEN [ports EXCEPT ![ser] = FALSE] ELSE ports
    /\ ser' = 0
    /\ btn_connect' = "Connect"
    /\ btn_rec_start' = FALSE
    /\ btn_rec_stop' = FALSE
    /\ UNCHANGED <<ch_queues, offered, workerVars, _acq_thread, _demo_active,
                   data, rec_mark, modal, tickVars, ndemo, demo_idx>>

\* ----------------------------------------------------------------- recording
\* Variant: the buffer not emptied at the start of a recording.
on_rec_start_no_clear ==
    /\ buttons_live
    /\ btn_rec_start
    /\ recording' = TRUE
    /\ btn_rec_start' = FALSE
    /\ btn_rec_stop' = TRUE
    /\ rec_mark' = Len(appended)
    /\ UNCHANGED <<ch_queues, offered, workerVars, ser, ports, running,
                   _acq_thread, _demo_active, btn_connect, data, modal, tickVars,
                   ndemo, demo_idx>>

on_rec_start ==
    /\ buttons_live
    /\ btn_rec_start
    /\ _rec_rows' = <<>>
    /\ recording' = TRUE
    /\ btn_rec_start' = FALSE
    /\ btn_rec_stop' = TRUE
    /\ rec_mark' = Len(appended)
    /\ UNCHANGED <<ch_queues, offered, workerVars, ser, ports, running,
                   _acq_thread, _demo_active, btn_connect, data, modal, ch_vals,
                   ch_ptrs, idx, last, current_vals, clock, pushed, got, snap,
                   appended, ndemo, demo_idx>>

\* Variant: the buffer emptied once the snapshot is taken.
on_rec_stop_clear ==
    /\ buttons_live
    /\ btn_rec_stop
    /\ recording' = FALSE
    /\ data' = _rec_rows
    /\ _rec_rows' = <<>>
    /\ modal' = TRUE
    /\ UNCHANGED <<ch_queues, offered, workerVars, ser, ports, running,
                   _acq_thread, _demo_active, btn_connect, btn_rec_start,
                   btn_rec_stop, rec_mark, ch_vals, ch_ptrs, idx, last,
                   current_vals, clock, pushed, got, snap, appended, ndemo,
                   demo_idx>>

\* on_rec_stop up to its message box: the flag cleared, the snapshot taken,
\* the file written if there are rows, and QMessageBox.information opened
\* ("No data recorded." or "Saved").  The box is modal: until it is closed no
\* button handler runs, while the timers (update_loop, _demo_tick) and the
\* worker threads go on.
on_rec_stop ==
    /\ buttons_live
    /\ btn_rec_stop
    /\ recording' = FALSE
    /\ data' = _rec_rows
    /\ modal' = TRUE
    /\ UNCHANGED <<ch_queues, offered, workerVars, ser, ports, running,
                   _acq_thread, _demo_active, btn_connect, btn_rec_start,
                   btn_rec_stop, rec_mark, tickVars, ndemo, demo_idx>>

\* on_rec_stop with open() or the csv writer raising (lines 492-495): the
\* exception leaves the handler before any box and before _reset_rec_ui.  (Under
\* a Qt binding that aborts on an exception in a slot the program ends here.)
on_rec_stop_save_error ==
    /\ buttons_live
    /\ btn_rec_stop
    /\ _rec_rows # <<>>
    /\ recording' = FALSE
    /\ data' = _rec_rows
    /\ UNCHANGED <<ch_queues, offered, workerVars, ser, ports, running,
                   _acq_thread, _demo_active, btn_connect, btn_rec_start,
                   btn_rec_stop, rec_mark, modal, tickVars, ndemo, demo_idx>>

\* The user closes the "Saved" box with Open and open_file(save_path) raises
\* (lines 501-502: no xdg-open, os.startfile failing): the exception leaves the
\* handler before _reset_rec_ui, the buttons stay as they were.  (Under a Qt
\* binding that aborts on an exception in a slot the program ends here.)
on_rec_stop_open_error ==
    /\ modal
    /\ main_idle
    /\ data # <<>>
    /\ modal' = FALSE
    /\ UNCHANGED <<ch_queues, offered, workerVars, ser, ports, running, recording,
                   _acq_thread, _demo_active, btn_connect, btn_rec_start,
                   btn_rec_stop, data, rec_mark, tickVars, ndemo, demo_idx>>

\* The user closes the box, between two timer callbacks (with Open, open_file
\* returns); on_rec_stop goes on to _reset_rec_ui and returns.
_reset_rec_ui ==
    /\ modal
    /\ main_idle
    /\ modal' = FALSE
    /\ btn_rec_start' = TRUE
    /\ btn_rec_stop' = FALSE
    /\ UNCHANGED <<ch_queues, offered, workerVars, ser, ports, running, recording,
                   _acq_thread, _demo_active, btn_connect, data, rec_mark,
                   tickVars, ndemo, demo_idx>>

\* ----------------------------------------------------------------- demo
on_demo_toggle ==
    /\ buttons_live
    /\ _demo_active' = ~_demo_active
    /\ btn_rec_start' = IF ~_demo_active THEN TRUE
                        ELSE IF ~running THEN FALSE ELSE btn_rec_start
    /\ UNCHANGED <<ch_queues, offered, workerVars, ser, ports, running, recording,
                   _acq_thread, btn_connect, btn_rec_stop, data, rec_mark, modal,
                   tickVars, ndemo, demo_idx>>

\* The queues after ch_queues[idx].put_nowait(float(fn(x))) for channel i.
demo_put(qs, i, v) == [qs EXCEPT ![i] = put_nowait(@, v)]

\* The demo timer fires with the main thread idle: x = _demo_phase, the phase
\* advanced, and the first pass of the loop, which puts v on the first channel.
_demo_tick(v) ==
    /\ main_idle
    /\ _demo_active
    /\ ch_queues' = demo_put(ch_queues, 1, v)
    /\ offered' = [offered EXCEPT ![1] = offer(@, ch_queues[1], v)]
    /\ demo_idx' = IF DEMO_CH > 1 THEN 2 ELSE 0
    /\ ndemo' = ndemo + 1
    /\ UNCHANGED <<workerVars, mainVars, tickVars>>

\* A further pass of the loop of _demo_tick: v is put on channel demo_idx.  The
\* worker threads run between the passes.
_demo_next(v) ==
    /\ demo_idx \in 2..DEMO_CH
    /\ ch_queues' = demo_put(ch_queues, demo_idx, v)
    /\ offered' = [offered EXCEPT ![demo_idx] = offer(@, ch_queues[demo_idx], v)]
    /\ demo_idx' = IF demo_idx < DEMO_CH THEN demo_idx + 1 ELSE 0
    /\ UNCHANGED <<workerVars, mainVars, tickVars, ndemo>>

\* ----------------------------------------------------------------- update_loop
\* The timer fires: current_vals = [None] * NUM_CH, idx = 0 (first channel),
\* last = None.
update_begin ==
    /\ main_idle
    /\ idx' = 1
    /\ last' = None
    /\ current_vals' = [i \in Channels |-> None]
    /\ clock' = clock + 1
    /\ got' = <<>>
    /\ snap' = <<ch_vals, ch_ptrs, _rec_rows, offered>>
    /\ UNCHANGED <<ch_queues, offered, workerVars, mainVars, ch_vals, ch_ptrs,
                   _rec_rows, pushed, appended, ndemo, demo_idx>>

\* Variant: the newest item returned (a LifoQueue).
get_item_lifo(q) == q[Len(q)]

\* Queue.get_nowait on a non-empty queue: the item returned (the oldest) ...
get_item(q) == Head(q)
\* ... and the queue afterwards.
get_rest(q) == Tail(q)

\* last = ch_queues[idx].get_nowait() on a non-empty queue.
update_get ==
    /\ idx \in Channels
    /\ ch_queues[idx] # <<>>
    /\ last' = Some(get_item(ch_queues[idx]))
    /\ got' = Append(got, get_item(ch_queues[idx]))
    /\ ch_queues' = [ch_queues EXCEPT ![idx] = get_rest(@)]
    /\ UNCHANGED <<offered, workerVars, mainVars, ch_vals, ch_ptrs, _rec_rows,
                   idx, current_vals, clock, pushed, snap, appended, ndemo, demo_idx>>

\* current_vals once channel idx is finished.
vals_after == IF last # None THEN [current_vals EXCEPT ![idx] = last] ELSE current_vals

\* Variant: the row appended whatever the recording flag.
update_empty_unconditional ==
    /\ idx \in Channels
    /\ ch_queues[idx] = <<>>
    /\ IF last # None
       THEN /\ ch_vals' = [ch_vals EXCEPT ![idx] = push(@, last[1])]
            /\ ch_ptrs' = [ch_ptrs EXCEPT ![idx] = @ + 1]
            /\ pushed' = [pushed EXCEPT ![idx] = Append(@, last[1])]
       ELSE UNCHANGED <<ch_vals, ch_ptrs, pushed>>
    /\ current_vals' = vals_after
    /\ last' = None
    /\ got' = <<>>
    /\ IF idx < NUM_CH
       THEN /\ idx' = idx + 1
            /\ UNCHANGED <<_rec_rows, snap, appended>>
       ELSE /\ idx' = 0
            /\ snap' = <<>>
            /\ _rec_rows' = IF any_value(vals_after)
                            THEN Append(_rec_rows, row_of(clock, vals_after))
                            ELSE _rec_rows
            /\ appended' = IF any_value(vals_after)
                           THEN Append(appended, row_of(clock, vals_after))
                           ELSE appended
    /\ UNCHANGED <<ch_queues, offered, workerVars, mainVars, clock, ndemo, demo_idx>>

\* get_nowait raises Empty: the window push of lines 569-575 if a value was
\* found, then the next channel, or after the last channel the recording of
\* lines 577-580 and the end of the tick.
update_empty ==
    /\ idx \in Channels
    /\ ch_queues[idx] = <<>>
    /\ IF last # None
       THEN /\ ch_vals' = [ch_vals EXCEPT ![idx] = push(@, last[1])]
            /\ ch_ptrs' = [ch_ptrs EXCEPT ![idx] = @ + 1]
            /\ pushed' = [pushed EXCEPT ![idx] = Append(@, last[1])]
       ELSE UNCHANGED <<ch_vals, ch_ptrs, pushed>>
    /\ current_vals' = vals_after
    /\ last' = None
    /\ got' = <<>>
    /\ IF idx < NUM_CH
       THEN /\ idx' = idx + 1
            /\ UNCHANGED <<_rec_rows, snap, appended>>
       ELSE /\ idx' = 0
            /\ snap' = <<>>
            /\ _rec_rows' = IF recording /\ any_value(vals_after)
                            THEN Append(_rec_rows, row_of(clock, vals_after))
                            ELSE _rec_rows
            /\ appended' = IF recording /\ any_value(vals_after)
                           THEN Append(appended, row_of(clock, vals_after))
                           ELSE appended
    /\ UNCHANGED <<ch_queues, offered, workerVars, mainVars, clock, ndemo, demo_idx>>

\* -------------------------------------------------------------------- Next
\* The worker threads' steps, reading frames from F, at most n in all.
worker_step(F, n) ==
    \/ \E t \in Threads : worker_loop(t)
    \/ \E t \in Threads : \E r \in F : nreads < n /\ worker_frame(t, r)
    \/ \E t \in Threads : worker_fault(t)

\* The consumer tick's steps.
update_step ==
    \/ clock < MaxTicks /\ update_begin
    \/ update_get
    \/ update_empty

\* The demo timer's steps.
demo_step ==
    \/ \E v \in DemoVals : ndemo < MaxDemoTicks /\ _demo_tick(v)
    \/ \E v \in DemoVals : _demo_next(v)

\* on_rec_stop's steps.
rec_stop_step ==
    \/ on_rec_stop
    \/ on_rec_stop_save_error
    \/ on_rec_stop_open_error
    \/ _reset_rec_ui

\* The whole program: every handler, every thread.
Next ==
    \/ \E t \in Threads : worker_loop(t)
    \/ \E t \in Threads : \E r \in Frames : nreads < MaxReads /\ worker_read(t, r)
    \/ \E t \in Threads : worker_put(t)
    \/ \E t \in Threads : worker_fault(t)
    \/ _acq_thread < MaxThreads /\ on_connect
    \/ on_connect_fail
    \/ Len(ports) - _acq_thread < MaxFlushFails /\ on_connect_flush_fail
    \/ on_disconnect
    \/ on_rec_start
    \/ rec_stop_step
    \/ on_demo_toggle
    \/ demo_step
    \/ update_step

Spec == Init /\ [][Next]_vars

\* The acquisition pipeline alone: one connection, its worker reading every
\* kind of frame, and the consumer tick; the user starts neither the demo nor a
\* recording.
NextAcq ==
    \/ worker_step(RawFrames, MaxAcqReads)
    \/ _acq_thread < 1 /\ on_connect
    \/ on_disconnect
    \/ update_step

SpecAcq == Init /\ [][NextAcq]_vars

\* The two producers: one connection with its worker, the demo timer, and the
\* consumer tick; no recording.
NextDemo ==
    \/ worker_step(Frames, MaxReads)
    \/ _acq_thread < 1 /\ on_connect
    \/ on_disconnect
    \/ on_demo_toggle
    \/ demo_step
    \/ update_step

SpecDemo == Init /\ [][NextDemo]_vars

\* Recording: one connection with its worker, the recording buttons, and the
\* consumer tick; no demo.
NextRec ==
    \/ worker_step(Frames, MaxReads)
    \/ _acq_thread < 1 /\ on_connect
    \/ on_disconnect
    \/ on_rec_start
    \/ rec_stop_step
    \/ update_step

SpecRec == Init /\ [][NextRec]_vars

\* Reconnection: up to MaxThreads connections, each starting a worker thread;
\* the workers' reads and puts interleave.
NextReconn ==
    \/ \E t \in Threads : worker_loop(t)
    \/ \E t \in Threads : \E r \in ReconnFrames : nreads < MaxReads /\ worker_read(t, r)
    \/ \E t \in Threads : worker_put(t)
    \/ \E t \in Threads : worker_fault(t)
    \/ _acq_thread < MaxThreads /\ on_connect
    \/ on_connect_fail
    \/ Len(ports) - _acq_thread < MaxFlushFails /\ on_connect_flush_fail
    \/ on_disconnect
    \/ update_step

SpecReconn == Init /\ [][NextReconn]_vars

\* The user's handlers with the demo timer as the producer: the device sends
\* nothing, a worker only ever leaves its read on an exception.
NextUser ==
    \/ \E t \in Threads : worker_loop(t)
    \/ \E t \in Threads : worker_fault(t)
    \/ _acq_thread < 1 /\ on_connect
    \/ on_disconnect
    \/ on_rec_start
    \/ rec_stop_step
    \/ on_demo_toggle
    \/ demo_step
    \/ update_step

SpecUser == Init /\ [][NextUser]_vars

\* ==================================================================== claims
NodeIdSet == { NODE_IDS[i] : i \in 1..Len(NODE_IDS) }

\* Thread t has just taken a frame through lines 399-409; the frame is raw'[t].
FrameStep(t) == wpc[t] = "read" /\ wpc'[t] = "while" /\ nreads' = nreads + 1

\* The values channel i's queue has taken, in order.
accepted(i) == SelectSeq(offered[i], LAMBDA e : e.ok)

\* The tick has emptied queue idx after finding at least one value in it: the
\* next step of the tick pushes last onto the window of channel idx.
Drained == idx \in Channels /\ ch_queues[idx] = <<>> /\ last # None

\* ---- C1
\* Nothing has been produced for channel idx since the current tick began.
NoneSinceTickBegan == snap[4][idx] = offered[idx]

\* C1 as stated: when the values of a channel were all produced before the tick
\* began, the value the tick pushes after draining the queue is the value most
\* recently produced, also when more were produced than the queue holds.
C1_PushesLastProduced ==
    (Drained /\ NoneSinceTickBegan) => last[1] = offered[idx][Len(offered[idx])].v

\* C1 as amended: once the tick has drained a channel's queue, the value it
\* pushes is the last value the queue accepted; values produced while the queue
\* was full are lost, so after an overflow it is not the last value produced.
C1_PushesLastAccepted ==
    Drained => /\ accepted(idx) # <<>>
               /\ last[1] = accepted(idx)[Len(accepted(idx))].v

\* C1 witness: MAXSIZE + 1 values were produced for a channel before the tick
\* took any, the last one was refused, and the tick has drained the MAXSIZE
\* accepted ones; the value about to be pushed differs from the last produced.
C1_Witness ==
    /\ Drained
    /\ NoneSinceTickBegan
    /\ clock = 1
    /\ Len(offered[idx]) = MAXSIZE + 1
    /\ Len(got) = MAXSIZE
    /\ ~offered[idx][MAXSIZE + 1].ok
    /\ last[1] # offered[idx][MAXSIZE + 1].v

\* ---- C2
\* C2: no queue ever holds more than MAXSIZE values.
C2_Bounded == \A i \in Channels : Len(ch_queues[i]) <= MAXSIZE

\* C2: a put_nowait on a queue that already holds MAXSIZE values leaves that
\* queue as it was, and the producer goes on: the worker is back at its loop
\* condition (not terminated by an exception), the demo tick is at its next
\* channel, or has returned after its last one.
C2_FullPut ==
    \A i \in Channels :
        (Len(ch_queues[i]) = MAXSIZE /\ Len(offered'[i]) = Len(offered[i]) + 1)
        => /\ ch_queues'[i] = ch_queues[i]
           /\ nreads' # nreads =>
                 \E t \in Threads :
                     /\ wpc[t] = "read"
                     /\ wpc' = [wpc EXCEPT ![t] = "while"]
           /\ demo_idx' # demo_idx =>
                 /\ wpc' = wpc
                 /\ i = (IF demo_idx = 0 THEN 1 ELSE demo_idx)
                 /\ demo_idx' = (IF i < DEMO_CH THEN i + 1 ELSE 0)
           /\ (nreads' # nreads) # (demo_idx' # demo_idx)

C2_QueueFullDropsIncoming == []C2_Bounded /\ [][C2_FullPut]_vars

\* C2 witness: the worker and the demo tick have each had a value dropped at a
\* full queue (the demo tick puts 3, the worker never does), and the demo tick
\* has returned.
C2_Witness ==
    /\ \E i \in Channels : \E k \in 1..Len(offered[i]) :
          ~offered[i][k].ok /\ offered[i][k].v \in DemoVals
    /\ \E i \in Channels : \E k \in 1..Len(offered[i]) :
          ~offered[i][k].ok /\ offered[i][k].v \notin DemoVals
    /\ \E i \in Channels : Len(ch_queues[i]) = MAXSIZE
    /\ nreads > 0
    /\ ndemo > 0
    /\ demo_idx = 0

\* ---- C3
\* C3: a frame whose first byte, as two hex digits, is none of "31".."36"
\* leaves all six queues as they were.
C3_Step ==
    \A t \in Threads :
        (/\ FrameStep(t)
         /\ raw'[t] # <<>>
         /\ hex(raw'[t][1]) \notin {"31", "32", "33", "34", "35", "36"})
        => ch_queues' = ch_queues

C3_UnknownTagNotQueued == [][C3_Step]_vars

\* C3 witness: the worker has processed a frame with an unknown tag and a value
\* byte while a queue held a value.
C3_Witness ==
    \E t \in Threads :
        /\ wpc[t] = "while"
        /\ Len(raw[t]) > 1
        /\ hex(raw[t][1]) \notin NodeIdSet
        /\ \E i \in Channels : ch_queues[i] # <<>>

\* ---- C4
\* C4 as stated: once the newest worker has left its loop on a transport
\* exception, nothing is put on any queue until a new connect.
C4_Quiet ==
    (/\ _acq_thread \in Threads
     /\ wpc[_acq_thread] = "faulted"
     /\ _acq_thread' = _acq_thread)
    => offered' = offered

C4_NoEnqueueAfterFault == [][C4_Quiet]_vars

\* C4 as amended: a read that raises ends the worker's loop without touching
\* any queue or any other thread, the worker stays out of its loop for good
\* (only a new connect starts a worker, which is another thread), and a frame is
\* only ever enqueued by a worker that is inside its loop.  Other producers are
\* not stopped by it: the demo timer, while active, keeps enqueuing.
C4_Step ==
    /\ \A t \in Threads :
          (wpc[t] = "read" /\ wpc'[t] # "read" /\ nreads' = nreads)
          => /\ wpc' = [wpc EXCEPT ![t] = "faulted"]
             /\ offered' = offered
             /\ ch_queues' = ch_queues
             /\ running' = running
    /\ \A t \in Threads : wpc[t] = "faulted" => wpc'[t] = "faulted"
    /\ nreads' # nreads =>
          \E t \in Threads : wpc[t] = "read" /\ wpc'[t] = "while"

C4_FaultedWorkerStaysOut == [][C4_Step]_vars

\* C4 witness: the only worker has faulted, and afterwards the demo tick has
\* put values on the queues.
C4_Witness ==
    /\ _acq_thread = 1
    /\ wpc[1] = "faulted"
    /\ nreads = 0
    /\ ndemo > 0
    /\ ch_queues[1] # <<>>

\* ---- C5
\* C5 as stated: a known tag byte followed directly by the terminator
\* 0xFF 0xFF 0xFF is enqueued for its channel as the value 0.0.
C5_Step ==
    \A t \in Threads : \A i \in Channels :
        (/\ FrameStep(t)
         /\ Len(raw'[t]) = 4
         /\ SubSeq(raw'[t], 2, 4) = TERMINATOR
         /\ hex(raw'[t][1]) = NODE_IDS[i])
        => /\ Len(offered'[i]) = Len(offered[i]) + 1
           /\ offered'[i][Len(offered'[i])].v = 0

C5_TruncatedFrameIsZero == [][C5_Step]_vars

\* ---- C6
\* C6: after exactly WINDOW_W pushes the window holds the pushed values in
\* arrival order and the pointer, which began at -WINDOW_W, is 0.
C6_Filled ==
    \A i \in Channels :
        Len(pushed[i]) = WINDOW_W
        => /\ \A j \in 1..WINDOW_W : ch_vals[i][j] = pushed[i][j]
           /\ ch_ptrs[i] = -WINDOW_W + WINDOW_W

\* C6: each push moves every element one index toward the front, drops the
\* oldest, writes the new value at the last index and adds one to the pointer.
C6_Push ==
    \A i \in Channels :
        pushed'[i] # pushed[i]
        => /\ Len(pushed'[i]) = Len(pushed[i]) + 1
           /\ \A j \in 1..(WINDOW_W - 1) : ch_vals'[i][j] = ch_vals[i][j + 1]
           /\ ch_vals'[i][WINDOW_W] = pushed'[i][Len(pushed'[i])]
           /\ DOMAIN ch_vals'[i] = 1..WINDOW_W
           /\ ch_ptrs'[i] = ch_ptrs[i] + 1

C6_WindowPush == []C6_Filled /\ [][C6_Push]_vars

\* C6 witness: a channel has had exactly WINDOW_W pushes, not all of the same
\* value.
C6_Witness ==
    \E i \in Channels :
        /\ Len(pushed[i]) = WINDOW_W
        /\ \E j \in 2..WINDOW_W : pushed[i][j] # pushed[i][1]

\* ---- C7
\* C7: the tick takes the pending values of a channel oldest first; when it
\* finds the queue empty after taking k >= 1 values it pushes exactly once, the
\* value taken last, which is the value enqueued last; the queue is empty at
\* that moment, and nothing is pushed while values are still being taken.
C7_Step ==
    /\ (idx \in Channels /\ got' # got /\ idx' = idx)
       => /\ got' = Append(got, Head(ch_queues[idx]))
          /\ ch_queues'[idx] = Tail(ch_queues[idx])
          /\ pushed' = pushed
    /\ (idx \in Channels /\ idx' # idx /\ got # <<>>)
       => /\ ch_queues[idx] = <<>>
          /\ ch_queues'[idx] = <<>>
          /\ pushed'[idx] = Append(pushed[idx], got[Len(got)])
          /\ got[Len(got)] = accepted(idx)[Len(accepted(idx))].v
          /\ \A j \in Channels \ {idx} : pushed'[j] = pushed[j]

C7_DrainPushesLatest == [][C7_Step]_vars

\* C7 witness: the tick has just pushed for a channel from which it took two
\* different values.
C7_Witness ==
    \E i \in Channels :
        /\ Len(accepted(i)) = 2
        /\ accepted(i)[1].v # accepted(i)[2].v
        /\ pushed[i] = <<accepted(i)[2].v>>
        /\ clock = 1

\* ---- C8
\* C8: a tick that found no value in any queue ends with every window, every
\* pointer and the recorded rows as they were when it began, and reports no
\* update (current_vals is None for every channel); so does any number of such
\* ticks, each beginning where the previous one ended.
C8_Step ==
    /\ (idx = NUM_CH /\ idx' = 0 /\ \A i \in Channels : current_vals'[i] = None)
       => /\ ch_vals' = snap[1]
          /\ ch_ptrs' = snap[2]
          /\ _rec_rows' = snap[3]
    /\ (idx \in Channels /\ idx' # idx /\ got = <<>>)
       => /\ current_vals'[idx] = None
          /\ ch_vals' = ch_vals
          /\ ch_ptrs' = ch_ptrs
    /\ (idx = 0 /\ idx' = 1)
       => snap' = <<ch_vals, ch_ptrs, _rec_rows, offered>>
    /\ (idx # 0 /\ idx' # 0) => snap' = snap

C8_EmptyTickChangesNothing == [][C8_Step]_vars

\* C8 witness: while recording, with a row recorded and a window written, a
\* further tick has ended having found nothing.
C8_Witness ==
    /\ idx = 0
    /\ clock = 2
    /\ recording
    /\ Len(_rec_rows) = 1
    /\ \A i \in Channels : current_vals[i] = None
    /\ \E i \in Channels : pushed[i] # <<>>

\* ---- C9
\* C9: a frame tagged for channel k changes no queue but k's; the tick changes
\* the window and pointer of channel j only while it is at channel j with a
\* value taken from queue j; a channel that was never offered a value keeps its
\* initial window and pointer.
C9_Step ==
    /\ \A t \in Threads : \A k \in Channels :
          (FrameStep(t) /\ raw'[t] # <<>> /\ hex(raw'[t][1]) = NODE_IDS[k])
          => /\ \A j \in Channels \ {k} : ch_queues'[j] = ch_queues[j]
             /\ Len(offered'[k]) = Len(offered[k]) + 1
    /\ \A j \in Channels :
          (ch_vals'[j] # ch_vals[j] \/ ch_ptrs'[j] # ch_ptrs[j])
          => (idx = j /\ got # <<>>)

C9_Untouched ==
    \A j \in Channels :
        offered[j] = <<>> => (ch_vals[j] = zeros /\ ch_ptrs[j] = -WINDOW_W)

C9_ChannelIsolation == []C9_Untouched /\ [][C9_Step]_vars

\* C9 witness: frames for "31" and "32" only, with different values, then a
\* tick: channels 1 and 2 have been pushed, channels 3-6 are untouched.
C9_Witness ==
    /\ idx = 0
    /\ Len(pushed[1]) = 1
    /\ Len(pushed[2]) = 1
    /\ pushed[1] # pushed[2]
    /\ ch_ptrs[1] = 1 - WINDOW_W
    /\ ch_ptrs[2] = 1 - WINDOW_W
    /\ \A j \in 3..NUM_CH : offered[j] = <<>> /\ ch_ptrs[j] = -WINDOW_W

\* ---- C10
\* C10: a frame with a known tag is offered to the channel whose node ID is the
\* two-hex-digit form of its first byte, and to no other; the value is the
\* second byte when the frame has at least two bytes, and 0.0 when it has one.
\* The queue takes the value unless it is full.
C10_Step ==
    \A t \in Threads : \A k \in Channels :
        (FrameStep(t) /\ raw'[t] # <<>> /\ hex(raw'[t][1]) = NODE_IDS[k])
        => LET v == IF Len(raw'[t]) >= 2 THEN raw'[t][2] ELSE 0 IN
           /\ Len(offered'[k]) = Len(offered[k]) + 1
           /\ offered'[k][Len(offered'[k])].v = v
           /\ \A j \in Channels \ {k} : offered'[j] = offered[j]
           /\ Len(ch_queues[k]) < MAXSIZE => ch_queues'[k] = Append(ch_queues[k], v)

C10_DecodedValue == [][C10_Step]_vars

\* C10 witness: channel 2 was sent a frame with value byte 1 and then a frame
\* of one byte, and its queue holds 1.0 and 0.0.
C10_Witness ==
    /\ raw[1] = <<50>>
    /\ ch_queues[2] = <<1, 0>>

\* ---- C11
\* C11 as stated: once the worker of the current connection has left its loop
\* on a transport exception, the running flag is cleared and the connection is
\* shown as disconnected (the connect button offers "Connect" again).
C11_FaultClearsRunning ==
    (_acq_thread \in Threads /\ wpc[_acq_thread] = "faulted")
    => (~running /\ btn_connect = "Connect")

\* ---- C12
\* C12: a row is added to _rec_rows only by the last step of a consumer tick
\* and only with the recording flag set; the flag does not change while a tick
\* is in progress, and a tick that runs with the flag false ends with _rec_rows
\* as it found them, whatever start, stop, disconnect and demo-toggle events
\* came before.
C12_Step ==
    /\ Len(_rec_rows') > Len(_rec_rows)
       => (recording /\ idx = NUM_CH /\ idx' = 0)
    /\ idx # 0 => recording' = recording
    /\ (idx # 0 /\ ~recording) => _rec_rows' = _rec_rows
    /\ (idx = NUM_CH /\ idx' = 0 /\ ~recording) => _rec_rows' = snap[3]

C12_RowsOnlyWhileRecording == [][C12_Step]_vars

\* C12 witness: a recording was started with the demo running and ended with
\* one row; a later tick found a value with the recording flag false and the
\* rows are still that one row.
C12_Witness ==
    /\ idx = 0
    /\ clock = 2
    /\ ~recording
    /\ Len(_rec_rows) = 1
    /\ _rec_rows[1][1] = 1
    /\ Len(pushed[1]) = 2

\* ---- C13
\* The step is on_rec_stop up to its snapshot: with the stop button enabled,
\* and staying so, the handler opens its message box, or clears the recording
\* flag and is ended by an exception while saving.  (The box closing, with or
\* without _reset_rec_ui, is a later step.)
RecStopStep ==
    /\ btn_rec_stop
    /\ btn_rec_stop'
    /\ ~modal
    /\ modal' \/ (recording /\ ~recording')

\* C13 as stated: right after on_rec_stop has taken its snapshot the recording
\* buffer is empty.
C13_Cleared == RecStopStep => _rec_rows' = <<>>

C13_StopSnapshotsAndClears == [][C13_Cleared]_vars

\* C13 as amended: on_rec_stop clears the recording flag and snapshots the
\* buffer, leaving the buffer as it is; from then on, while the flag is false,
\* the buffer keeps exactly the snapshotted rows, and the only change it sees
\* is being emptied by the next on_rec_start.
C13_Step ==
    /\ RecStopStep => /\ data' = _rec_rows
                      /\ _rec_rows' = _rec_rows
                      /\ ~recording'
    /\ (~recording /\ _rec_rows' # _rec_rows) => (_rec_rows' = <<>> /\ recording')

C13_StopSnapshotsOnly == [][C13_Step]_vars

\* C13 witness: a recording of one row was stopped, a tick that found a value
\* has run while the message box of on_rec_stop was open, and the buffer still
\* holds the snapshotted row.
C13_Witness ==
    /\ idx = 0
    /\ clock = 2
    /\ ~recording
    /\ modal
    /\ btn_rec_stop
    /\ Len(data) = 1
    /\ data[1][1] = 1
    /\ _rec_rows = data
    /\ \E i \in Channels : Len(pushed[i]) = 2

\* ---- C14
\* C14 as stated: a worker started by an earlier connect never runs alongside
\* the worker of a later connect: the only thread that goes from its loop
\* condition into a read is the one the most recent connect started.
C14_Step ==
    \A t \in Threads :
        (wpc[t] = "while" /\ wpc'[t] = "read") => t = _acq_thread

C14_OnlyNewestWorkerReads == [][C14_Step]_vars

\* ---- C15
\* on_disconnect has run since thread t was started.
disconnected(t) ==
    /\ wpc[t] # "none"
    /\ (t < _acq_thread \/ btn_connect = "Connect")

\* C15 as stated: a worker whose connection has been disconnected leaves its
\* loop at its next check of the running flag, so that it enqueues at most the
\* frame whose read was in flight at the disconnect.
C15_Step ==
    \A t \in Threads :
        (disconnected(t) /\ wpc[t] = "while" /\ wpc'[t] # "while")
        => wpc'[t] = "done"

C15_WorkerExitsAfterDisconnect == [][C15_Step]_vars

\* ---- C16
\* a is a subsequence of b: a is b with some elements left out.
RECURSIVE IsSubseq(_, _)
IsSubseq(a, b) ==
    IF a = <<>> THEN TRUE
    ELSE IF b = <<>> THEN FALSE
    ELSE IF Head(a) = Head(b) THEN IsSubseq(Tail(a), Tail(b))
    ELSE IsSubseq(a, Tail(b))

\* C16 as stated: for each channel the values pushed onto the window are, in
\* order, a subsequence of the values decoded from the channel's frames in the
\* order the frames arrived from the transport.
C16_PushedInArrivalOrder ==
    \A i \in Channels : IsSubseq(pushed[i], arrived[i])

\* ---- C17
\* C17: a tick that ends with the recording flag set appends exactly one row
\* to the rows it found if it pushed a value for at least one channel, and no
\* row otherwise; the row is the tick's timestamp followed by NUM_CH cells,
\* cell i holding the value the tick pushed onto window i, or blank if the tick
\* pushed none for channel i.
C17_Step ==
    (idx = NUM_CH /\ idx' = 0 /\ recording)
    => IF \E i \in Channels : ch_ptrs'[i] # snap[2][i]
       THEN /\ Len(_rec_rows') = Len(snap[3]) + 1
            /\ SubSeq(_rec_rows', 1, Len(snap[3])) = snap[3]
            /\ LET row == _rec_rows'[Len(_rec_rows')] IN
                 /\ Len(row) = 1 + NUM_CH
                 /\ row[1] = clock
                 /\ \A i \in Channels :
                       row[i + 1] = IF ch_ptrs'[i] # snap[2][i]
                                    THEN <<ch_vals'[i][WINDOW_W]>>
                                    ELSE Blank
       ELSE _rec_rows' = snap[3]

C17_OneRowPerTickWithValues == [][C17_Step]_vars

\* C17 witness: two ticks while recording, the first with a value for channel
\* 1 only, the second with a value for channel 2 only: two rows, each with one
\* value and the other cell blank.
C17_Witness ==
    /\ idx = 0
    /\ recording
    /\ clock = 2
    /\ Len(_rec_rows) = 2
    /\ _rec_rows[1][2] # Blank /\ _rec_rows[1][3] = Blank
    /\ _rec_rows[2][2] = Blank /\ _rec_rows[2][3] # Blank

\* ---- C18
\* C18: every window has length WINDOW_W, and each pointer, which began at
\* -WINDOW_W, exceeds that by the number of pushes onto its window, at most one
\* per tick.
C18_Shape ==
    \A i \in Channels :
        /\ DOMAIN ch_vals[i] = 1..WINDOW_W
        /\ ch_ptrs[i] + WINDOW_W = Len(pushed[i])
        /\ Len(pushed[i]) <= clock

\* C18: a pointer never decreases; it goes up by one exactly when the tick
\* leaves its channel after taking at least one value from the channel's queue
\* (the queue was non-empty in that tick), and is constant otherwise.
C18_Count ==
    \A i \in Channels :
        /\ ch_ptrs'[i] >= ch_ptrs[i]
        /\ ch_ptrs'[i] = ch_ptrs[i] +
                            (IF idx = i /\ idx' # idx /\ got # <<>> THEN 1 ELSE 0)

C18_PointerCountsTicks == []C18_Shape /\ [][C18_Count]_vars

\* C18 witness: after two ticks channel 1 had a value in both, channel 2 in
\* one, channel 3 in none.
C18_Witness ==
    /\ idx = 0
    /\ clock = 2
    /\ ch_ptrs[1] = 2 - WINDOW_W
    /\ ch_ptrs[2] = 1 - WINDOW_W
    /\ ch_ptrs[3] = -WINDOW_W

\* ---- C19
\* read_until has just returned a frame to thread t; the frame is raw'[t].
ReadReturn(t) == wpc[t] = "read" /\ wpc'[t] # "read" /\ nreads' = nreads + 1

\* The frame is an empty read, or its tag is not a node ID.
ignored(r) == r = <<>> \/ hex(r[1]) \notin NodeIdSet

\* C19: an empty read or a frame with an unknown tag takes the worker back to
\* its loop condition and nowhere else, puts nothing on any queue, and changes
\* nothing the consumer or the user sees (windows, pointers, rows, running
\* flag, connect button); from the loop condition, with the connection up, the
\* worker goes into another read.
C19_Step ==
    /\ \A t \in Threads :
          (ReadReturn(t) /\ ignored(raw'[t]))
          => /\ wpc' = [wpc EXCEPT ![t] = "while"]
             /\ ch_queues' = ch_queues
             /\ offered' = offered
             /\ UNCHANGED <<ch_vals, ch_ptrs, pushed, current_vals, _rec_rows>>
             /\ UNCHANGED <<running, ser, btn_connect>>
    /\ \A t \in Threads :
          (wpc[t] = "while" /\ wpc'[t] # "while" /\ running /\ ser # 0)
          => wpc'[t] = "read"

\* C19: as long as every frame read was of that kind, no tick has found a
\* value: nothing was pushed and no update was reported.
C19_NoUpdate ==
    (\A i \in Channels : offered[i] = <<>>)
    => \A i \in Channels : pushed[i] = <<>> /\ current_vals[i] = None

C19_IgnoredFrameIsNoError == []C19_NoUpdate /\ [][C19_Step]_vars

\* C19 witness: two reads, the second empty, neither enqueued; the worker is
\* in its third read and a tick has run without an update.
C19_Witness ==
    /\ wpc[1] = "read"
    /\ nreads = 2
    /\ raw[1] = <<>>
    /\ \A i \in Channels : offered[i] = <<>>
    /\ running
    /\ idx = 0
    /\ clock = 1

\* ---- C20
\* The rows update_loop has appended since the most recent on_rec_start.
session_rows == SubSeq(appended, rec_mark + 1, Len(appended))

\* C20: the rows on_rec_stop snapshots are the rows appended since the most
\* recent on_rec_start, in the order they were appended.
C20_Step == RecStopStep => data' = session_rows

\* C20: the buffer never holds a row of an earlier session while a recording
\* is running, also when that session was ended by on_disconnect.
C20_Session == recording => _rec_rows = session_rows

C20_SnapshotIsCurrentSession == []C20_Session /\ [][C20_Step]_vars

\* C20 witness: a first recording of one row was made and the connection
\* closed; a second recording of one row was stopped, and its snapshot is the
\* second row alone.
C20_Witness ==
    /\ idx = 0
    /\ ~recording
    /\ _acq_thread = 1
    /\ btn_connect = "Connect"
    /\ Len(appended) = 2
    /\ rec_mark = 1
    /\ data = <<appended[2]>>
    /\ data[1][1] = 2

====
